---- MODULE Spec2Model ----
(***************************************************************************)
(* GraphK core: Gate.assess, BranchNode.select / step / ping,              *)
(* Pipeline.ping / step / start / pause, and the Runner / Session stubs.   *)
(*                                                                         *)
(* Three specifications share the variables below:                         *)
(*   GateSpec     - one Gate and calls of assess(context)                  *)
(*   BranchSpec   - one BranchNode and calls of select()                   *)
(*   PipelineSpec - one Pipeline template shared by several executions     *)
(***************************************************************************)
EXTENDS Integers, Sequences, FiniteSets

VARIABLES
    checkers,        \* Gate.checkers: list of predicates
    strategy,        \* Gate.strategy
    context,         \* argument of the last assess(context)
    result,          \* value returned by the last assess (when it returned)
    calls,           \* indices of the predicates the last assess invoked, in order
    branch_nodes,    \* BranchNode._nodes_
    branch_strategy, \* BranchNode._strategy_
    selected,        \* index of the child the last select() returned, 0 for None
    pipeline_nodes,  \* Pipeline._nodes_
    running,         \* Pipeline._running_
    pingResult,      \* value returned by the last Pipeline.ping()
    pingCalls,       \* indices of the members the last Pipeline.ping() probed
    caller,          \* execution on whose behalf the last operation was issued
    op,              \* name of the last operation
    raised           \* exception the last operation ended with, "" when it returned

vars == << checkers, strategy, context, result, calls,
           branch_nodes, branch_strategy, selected,
           pipeline_nodes, running, pingResult, pingCalls, caller,
           op, raised >>

gateVars     == << checkers, strategy, context, result, calls >>
branchVars   == << branch_nodes, branch_strategy, selected >>
pipelineVars == << pipeline_nodes, running, pingResult, pingCalls, caller >>

(***************************************************************************)
(* Bounds and helpers                                                      *)
(***************************************************************************)
NumContexts == 2
MaxCheckers == 2

RECURSIVE SeqsUpTo(_, _)
SeqsUpTo(S, n) ==
    IF n = 0 THEN { <<>> }
    ELSE LET shorter == SeqsUpTo(S, n - 1)
         IN  shorter \cup { Append(s, x) : s \in { t \in shorter : Len(t) = n - 1 }, x \in S }

(***************************************************************************)
(* Gate                                                                    *)
(***************************************************************************)
ALL_MATCH  == 1
ANY_MATCH  == 2
NONE_MATCH == 3

Contexts == 0 .. (NumContexts - 1)

\* What a predicate does on a context: returns True, returns False, raises.
Returns == { "T", "F", "X" }

\* A Checker (Callable[[Any], bool]) is modelled by its table over the contexts.
Checker == [Contexts -> Returns]

\* The strategy argument is an unchecked int: the three known values and two others.
GateStrategies == 0 .. 4

\* The predicates evaluated eagerly, as a list comprehension would: every
\* predicate from position i on is invoked, up to the first one that raises.
RECURSIVE ConsumeNoStop(_, _, _, _)
ConsumeNoStop(cs, ctx, i, stop) ==
    IF i > Len(cs) THEN [calls |-> <<>>, end |-> "exhausted"]
    ELSE LET r    == cs[i][ctx]
             rest == ConsumeNoStop(cs, ctx, i + 1, stop)
         IN  IF r = "X" THEN [calls |-> <<i>>, end |-> "raised"]
             ELSE [calls |-> <<i>> \o rest.calls,
                   end   |-> IF rest.end = "raised" THEN "raised"
                             ELSE IF r = stop THEN "stopped" ELSE rest.end]

\* What all()/any() do with the generator (func(context) for func in checkers):
\* pull one element at a time from position i on, and stop at the first element
\* equal to `stop` (False for all, True for any) or at the first exception.
RECURSIVE Consume(_, _, _, _)
Consume(cs, ctx, i, stop) ==
    IF i > Len(cs) THEN [calls |-> <<>>, end |-> "exhausted"]
    ELSE LET r == cs[i][ctx]
         IN  IF r = "X" THEN [calls |-> <<i>>, end |-> "raised"]
             ELSE IF r = stop THEN [calls |-> <<i>>, end |-> "stopped"]
             ELSE LET rest == Consume(cs, ctx, i + 1, stop)
                  IN  [calls |-> <<i>> \o rest.calls, end |-> rest.end]

\* all(generator)
All(cs, ctx) ==
    LET c == Consume(cs, ctx, 1, "F")
    IN  [calls |-> c.calls, raised |-> c.end = "raised", value |-> c.end = "exhausted"]

\* any(generator)
Any(cs, ctx) ==
    LET c == Consume(cs, ctx, 1, "T")
    IN  [calls |-> c.calls, raised |-> c.end = "raised", value |-> c.end = "stopped"]

\* Gate.assess with ANY_MATCH computed like ALL_MATCH.
AssessAnyAsAll(cs, strat, ctx) ==
    IF strat \in { ALL_MATCH, ANY_MATCH } THEN All(cs, ctx)
    ELSE IF strat = NONE_MATCH
    THEN LET a == Any(cs, ctx) IN [a EXCEPT !.value = ~a.value]
    ELSE [calls |-> <<>>, raised |-> FALSE, value |-> FALSE]

\* Gate.assess with every exception of a predicate caught and read as False.
AssessSwallow(cs, strat, ctx) ==
    LET quiet == [i \in DOMAIN cs |->
                    [c \in Contexts |-> IF cs[i][c] = "X" THEN "F" ELSE cs[i][c]]]
    IN  IF strat = ALL_MATCH THEN All(quiet, ctx)
        ELSE IF strat = ANY_MATCH THEN Any(quiet, ctx)
        ELSE IF strat = NONE_MATCH
        THEN LET a == Any(quiet, ctx) IN [a EXCEPT !.value = ~a.value]
        ELSE [calls |-> <<>>, raised |-> FALSE, value |-> FALSE]

\* Gate.assess: the generator is created first and only all()/any() consume it,
\* so an unrecognised strategy invokes no predicate at all.
AssessOutcome(cs, strat, ctx) ==
    IF strat = ALL_MATCH THEN All(cs, ctx)
    ELSE IF strat = ANY_MATCH THEN Any(cs, ctx)
    ELSE IF strat = NONE_MATCH
    THEN LET a == Any(cs, ctx) IN [a EXCEPT !.value = ~a.value]
    ELSE [calls |-> <<>>, raised |-> FALSE, value |-> FALSE]

Assess ==
    \E ctx \in Contexts :
        LET o == AssessOutcome(checkers, strategy, ctx)
        IN  /\ context' = ctx
            /\ calls'   = o.calls
            /\ result'  = (~o.raised /\ o.value)
            /\ raised'  = IF o.raised THEN "PredicateError" ELSE ""
            /\ op'      = "assess"
            /\ UNCHANGED << checkers, strategy, branchVars, pipelineVars >>

\* Gate.__init__ with a list of checkers.
GateInit ==
    /\ checkers \in SeqsUpTo(Checker, MaxCheckers)
    /\ strategy \in GateStrategies
    /\ context = 0
    /\ result = FALSE
    /\ calls = <<>>
    /\ branch_nodes = <<>>
    /\ branch_strategy = 0
    /\ selected = 0
    /\ pipeline_nodes = <<>>
    /\ running = FALSE
    /\ pingResult = FALSE
    /\ pingCalls = <<>>
    /\ caller = 0
    /\ op = "init"
    /\ raised = ""

GateNext == Assess

GateSpec == GateInit /\ [][GateNext]_vars

(***************************************************************************)
(* Gate claims                                                             *)
(***************************************************************************)
\* The predicate at position i returns True / returns False / raises on the
\* context of the last assess.
IsTrue(i)  == checkers[i][context] = "T"
Fails(i)   == checkers[i][context] = "X"
KnownStrategy == strategy \in { ALL_MATCH, ANY_MATCH, NONE_MATCH }

\* The value that decides the outcome as soon as one predicate returns it.
Deciding == IF strategy = ALL_MATCH THEN "F" ELSE "T"

\* assess gets as far as invoking the predicate at position i.
Reaches(i) ==
    /\ KnownStrategy
    /\ \A j \in 1 .. (i - 1) : checkers[j][context] \notin { "X", Deciding }

\* C1: assess returns true iff every predicate is true under ALL_MATCH, iff at
\* least one is true under ANY_MATCH, iff none is true under NONE_MATCH, and
\* false under any other strategy; it returns whenever no predicate raises.
C1_AssessLaws ==
    op = "assess" =>
        /\ (\A i \in DOMAIN checkers : ~Fails(i)) => raised = ""
        /\ raised = "" =>
             result = ( CASE strategy = ALL_MATCH  -> \A i \in DOMAIN checkers : IsTrue(i)
                          [] strategy = ANY_MATCH  -> \E i \in DOMAIN checkers : IsTrue(i)
                          [] strategy = NONE_MATCH -> ~ \E i \in DOMAIN checkers : IsTrue(i)
                          [] OTHER                 -> FALSE )

\* NONE_MATCH over two predicates that both return False: assess returned True.
C1_Witness ==
    /\ op = "assess" /\ raised = ""
    /\ strategy = NONE_MATCH /\ Len(checkers) = 2
    /\ result = TRUE

\* C9 as stated: if any predicate of the gate raises on the context, assess
\* raises, whatever the position of that predicate and the other results.
C9_AnyFailurePropagates ==
    (op = "assess" /\ \E i \in DOMAIN checkers : Fails(i)) => raised # ""

\* C9 amended: assess raises exactly when it reaches a predicate that raises,
\* that is, the strategy is one of the three known ones and every earlier
\* predicate returned a value that does not decide the outcome; the failure is
\* then propagated whatever the later predicates return.
C9_ReachedFailurePropagates ==
    op = "assess" =>
        ( raised # "" <=> \E i \in DOMAIN checkers : Fails(i) /\ Reaches(i) )

\* The second of two predicates raises and assess raised.
C9_Witness ==
    /\ op = "assess" /\ raised = "PredicateError"
    /\ Len(checkers) = 2 /\ ~Fails(1) /\ Fails(2)

LastInvoked ==
    LET ends == { i \in DOMAIN checkers : checkers[i][context] \in { "X", Deciding } }
    IN  IF ~KnownStrategy THEN 0
        ELSE IF ends = {} THEN Len(checkers)
        ELSE CHOOSE i \in ends : \A j \in ends : i <= j

SELECT_FIRST  == 0
SELECT_RANDOM == 1
SELECT_BEST   == 2

\* The strategy argument is an unchecked int: the three known values and one other.
BranchStrategies == 0 .. 3

MaxChildren == 3

\* An optional value: <<>> for None, <<v>> for v.
Option(S) == { <<>> } \cup { <<v>> : v \in S }

\* The condition gate children are built with: it is true on context 1 only.
IsOne == [c \in Contexts |-> IF c = 1 THEN "T" ELSE "F"]
ConditionGate == [checkers |-> << IsOne >>, strategy |-> ALL_MATCH]

Weights == { 3, 7 }
ExtraWeights == { 5 }

\* Node.__init__(context, condition=, weight=, **kwargs): the attributes of the
\* instance.  `condition` and `weight` are stored under these very names, and
\* only when given; kwargs are merged into the instance unvalidated, so a caller
\* may also set the attributes _condition_ and _weight_ that select() reads.
Node(ctx, condition, weight, kw_condition, kw_weight) ==
    [ context     |-> ctx,
      condition   |-> condition,
      weight      |-> weight,
      _condition_ |-> kw_condition,
      _weight_    |-> kw_weight ]

Children ==
    { Node(ctx, c, w, kc, kw) :
        ctx \in Contexts,
        c   \in Option({ ConditionGate }),
        w   \in Option(Weights),
        kc  \in Option({ ConditionGate }),
        kw  \in Option(ExtraWeights) }

\* getattr(n, '_weight_', 0)
WeightKey(n) == IF n._weight_ = <<>> THEN 0 ELSE n._weight_[1]

\* The filter loop of select(), from child i on: the indices of the valid
\* children.  A child whose _condition_ attribute is set makes the loop evaluate
\* node.context(), a call of the mapping (or None) stored by Node.__init__,
\* which raises TypeError before the gate is assessed.
RECURSIVE ValidNodes(_, _)
ValidNodes(nodes, i) ==
    IF i > Len(nodes) THEN [raised |-> "", valid |-> <<>>]
    ELSE IF nodes[i]._condition_ # <<>> THEN [raised |-> "TypeError", valid |-> <<>>]
    ELSE LET rest == ValidNodes(nodes, i + 1)
         IN  [raised |-> rest.raised,
              valid  |-> IF rest.raised = "" THEN <<i>> \o rest.valid ELSE <<>>]

\* max(valid_nodes, key=...): the first element with the largest key.
MaxByWeight(nodes, valid) ==
    valid[ CHOOSE k \in DOMAIN valid :
             /\ \A j \in DOMAIN valid : WeightKey(nodes[valid[j]]) <= WeightKey(nodes[valid[k]])
             /\ \A j \in 1 .. (k - 1) : WeightKey(nodes[valid[j]]) < WeightKey(nodes[valid[k]]) ]

\* BranchNode.select(): the exception it ends with, or the set of children it
\* may return (0 stands for None; random.choice may return any valid child).
SelectOutcome(nodes, strat) ==
    LET f == ValidNodes(nodes, 1)
    IN  IF f.raised # "" THEN [raised |-> f.raised, returns |-> { 0 }]
        ELSE IF f.valid = <<>> THEN [raised |-> "", returns |-> { 0 }]
        ELSE IF strat = SELECT_FIRST THEN [raised |-> "", returns |-> { f.valid[1] }]
        ELSE IF strat = SELECT_RANDOM
        THEN [raised |-> "", returns |-> { f.valid[k] : k \in DOMAIN f.valid }]
        ELSE IF strat = SELECT_BEST
        THEN [raised |-> "", returns |-> { MaxByWeight(nodes, f.valid) }]
        ELSE [raised |-> "", returns |-> { 0 }]

Select ==
    LET o == SelectOutcome(branch_nodes, branch_strategy)
    IN  /\ \E n \in o.returns : selected' = n
        /\ raised' = o.raised
        /\ op' = "select"
        /\ UNCHANGED << branch_nodes, branch_strategy, gateVars, pipelineVars >>

\* BranchNode.__init__(nodes, strategy)
BranchInit ==
    /\ branch_nodes \in SeqsUpTo(Children, MaxChildren)
    /\ branch_strategy \in BranchStrategies
    /\ selected = 0
    /\ checkers = <<>>
    /\ strategy = ALL_MATCH
    /\ context = 0
    /\ result = FALSE
    /\ calls = <<>>
    /\ pipeline_nodes = <<>>
    /\ running = FALSE
    /\ pingResult = FALSE
    /\ pingCalls = <<>>
    /\ caller = 0
    /\ op = "init"
    /\ raised = ""

BranchNext == Select

BranchSpec == BranchInit /\ [][BranchNext]_vars

(***************************************************************************)
(* BranchNode claims                                                       *)
(***************************************************************************)
\* The child was constructed without a condition gate, or its condition gate
\* assesses true against the child's own context.
IsValidChild(n) ==
    \/ n.condition = <<>>
    \/ LET g == n.condition[1]
           o == AssessOutcome(g.checkers, g.strategy, n.context)
       IN  ~o.raised /\ o.value

ValidChildren == { i \in DOMAIN branch_nodes : IsValidChild(branch_nodes[i]) }

\* The weight the child was constructed with, 0 when absent.
WeightOf(n) == IF n.weight = <<>> THEN 0 ELSE n.weight[1]

\* Every child was constructed through the documented parameters alone
\* (context, condition, weight), with no extension attribute.
PlainChildren ==
    \A i \in DOMAIN branch_nodes :
        branch_nodes[i]._condition_ = <<>> /\ branch_nodes[i]._weight_ = <<>>

\* C2: under SELECT_FIRST select() returns the first valid child in definition
\* order, never a child whose condition gate assesses false, and None when no
\* child is valid.
C2_SelectFirstValid ==
    (op = "select" /\ branch_strategy = SELECT_FIRST /\ PlainChildren) =>
        /\ raised = ""
        /\ selected = IF ValidChildren = {} THEN 0
                      ELSE CHOOSE i \in ValidChildren : \A j \in ValidChildren : i <= j

\* C3: under SELECT_BEST, with every child valid, select() returns the child of
\* maximum weight (an absent weight counting as 0), the earliest one among those
\* tied for the maximum; with weights [3, 7, 7] that is the second child.
C3_SelectBestWeight ==
    ( /\ op = "select" /\ branch_strategy = SELECT_BEST /\ PlainChildren
      /\ branch_nodes # <<>>
      /\ ValidChildren = DOMAIN branch_nodes ) =>
        /\ raised = ""
        /\ selected = CHOOSE i \in ValidChildren :
                        \A j \in ValidChildren :
                           \/ WeightOf(branch_nodes[j]) < WeightOf(branch_nodes[i])
                           \/ WeightOf(branch_nodes[j]) = WeightOf(branch_nodes[i]) /\ i <= j

\* C8: select() on a BranchNode with zero children raises instead of returning.
C8_SelectNoChildrenRaises ==
    (op = "select" /\ branch_nodes = <<>>) => raised # ""

(***************************************************************************)
(* Pipeline, Runner, Session                                               *)
(***************************************************************************)
MaxMembers    == 2
MaxNested     == 1
NumExecutions == 2

\* The executions (Runner invocations) that share the one Pipeline template.
Executions == 1 .. NumExecutions

\* A member of a Pipeline: a leaf whose ping() answers `ping`, or a nested
\* Pipeline or BranchNode with its own members.
Leaves ==
    { [kind |-> "leaf", ping |-> b, nodes |-> <<>>, strategy |-> SELECT_FIRST] :
        b \in BOOLEAN }

Composites(seqs) ==
    { [kind |-> "pipeline", ping |-> FALSE, nodes |-> s, strategy |-> SELECT_FIRST] :
        s \in seqs }
    \cup
    { [kind |-> "branch", ping |-> FALSE, nodes |-> s, strategy |-> st] :
        s \in seqs, st \in { SELECT_FIRST, SELECT_RANDOM, SELECT_BEST } }

Members == Leaves \cup Composites(SeqsUpTo(Leaves, MaxNested))

RECURSIVE NodePing(_)
RECURSIVE PingAny(_, _)
RECURSIVE PingAll(_, _)

\* all(node.ping() for node in nodes) turned into any(...).
PingAny(nodes, i) ==
    IF i > Len(nodes) THEN [calls |-> <<>>, value |-> FALSE]
    ELSE IF NodePing(nodes[i]) THEN [calls |-> <<i>>, value |-> TRUE]
    ELSE LET rest == PingAny(nodes, i + 1)
         IN  [calls |-> <<i>> \o rest.calls, value |-> rest.value]

\* all(node.ping() for node in nodes), from member i on: the members probed
\* and the value; all() stops at the first member whose ping() is False.
PingAll(nodes, i) ==
    IF i > Len(nodes) THEN [calls |-> <<>>, value |-> TRUE]
    ELSE IF ~NodePing(nodes[i]) THEN [calls |-> <<i>>, value |-> FALSE]
    ELSE LET rest == PingAll(nodes, i + 1)
         IN  [calls |-> <<i>> \o rest.calls, value |-> rest.value]

\* node.ping(): a leaf's own answer, Pipeline.ping / BranchNode.ping otherwise.
NodePing(n) ==
    IF n.kind = "leaf" THEN n.ping ELSE PingAll(n.nodes, 1).value

\* Pipeline.ping()
PipelinePing ==
    LET p == PingAll(pipeline_nodes, 1)
    IN  /\ pingResult' = p.value
        /\ pingCalls' = p.calls
        /\ op' = "ping"
        /\ raised' = ""
        /\ UNCHANGED << pipeline_nodes, running, caller, gateVars, branchVars >>

\* Pipeline.step() that raises only while the pipeline is not running.
PipelineStepUnlessRunning ==
    /\ op' = "Pipeline.step"
    /\ raised' = IF running THEN "" ELSE "RuntimeError"
    /\ UNCHANGED << pipeline_nodes, running, pingResult, pingCalls, caller,
                    gateVars, branchVars >>

\* Pipeline.step()
PipelineStep ==
    /\ op' = "Pipeline.step"
    /\ raised' = "RuntimeError"
    /\ UNCHANGED << pipeline_nodes, running, pingResult, pingCalls, caller,
                    gateVars, branchVars >>

\* BranchNode.step(), on a member of the pipeline that is a BranchNode
BranchStep ==
    \E i \in DOMAIN pipeline_nodes :
        /\ pipeline_nodes[i].kind = "branch"
        /\ op' = "BranchNode.step"
        /\ raised' = "RuntimeError"
        /\ UNCHANGED << pipeline_nodes, running, pingResult, pingCalls, caller,
                        gateVars, branchVars >>

\* Pipeline.start(), issued on behalf of execution e
Start(e) ==
    /\ running' = TRUE
    /\ caller' = e
    /\ op' = "start"
    /\ raised' = ""
    /\ UNCHANGED << pipeline_nodes, pingResult, pingCalls, gateVars, branchVars >>

\* Pipeline.pause(), issued on behalf of execution e
Pause(e) ==
    /\ running' = FALSE
    /\ caller' = e
    /\ op' = "pause"
    /\ raised' = ""
    /\ UNCHANGED << pipeline_nodes, pingResult, pingCalls, gateVars, branchVars >>

\* class Runner: pass  -  the methods a Runner has.
RunnerMethods == {}

\* class Session: pass  -  the attributes a Session has.
SessionAttributes == {}

\* Runner().run(session) for execution e: the attribute lookup of `run`.
RunnerRun(e) ==
    /\ caller' = e
    /\ op' = "Runner.run"
    /\ raised' = IF "run" \in RunnerMethods THEN "" ELSE "AttributeError"
    /\ UNCHANGED << pipeline_nodes, running, pingResult, pingCalls,
                    gateVars, branchVars >>

\* The running state an execution observes: Session keeps none, the only flag
\* is the one on the Pipeline the execution is bound to.
RunningObserved(e) == running

\* Pipeline.__init__(nodes)
PipelineInit ==
    /\ pipeline_nodes \in SeqsUpTo(Members, MaxMembers)
    /\ running = FALSE
    /\ pingResult = FALSE
    /\ pingCalls = <<>>
    /\ caller = 0
    /\ checkers = <<>>
    /\ strategy = ALL_MATCH
    /\ context = 0
    /\ result = FALSE
    /\ calls = <<>>
    /\ branch_nodes = <<>>
    /\ branch_strategy = SELECT_FIRST
    /\ selected = 0
    /\ op = "init"
    /\ raised = ""

PipelineNext ==
    \/ PipelinePing
    \/ PipelineStep
    \/ BranchStep
    \/ \E e \in Executions : Start(e)
    \/ \E e \in Executions : Pause(e)
    \/ \E e \in Executions : RunnerRun(e)

PipelineSpec == PipelineInit /\ [][PipelineNext]_vars

(***************************************************************************)
(* Pipeline claims                                                         *)
(***************************************************************************)
\* C4: running a Session over a Pipeline of N leaf nodes ends with status
\* COMPLETED and a log of N entries: run() returns and the Session carries
\* a status and a log.
C4_RunCompletes ==
    ( /\ op = "Runner.run"
      /\ \A i \in DOMAIN pipeline_nodes : pipeline_nodes[i].kind = "leaf" ) =>
        /\ raised = ""
        /\ { "status", "log" } \subseteq SessionAttributes

\* C5: a start() or pause() issued on behalf of one execution never changes
\* the running state another execution observes.
C5_RunningPerExecution ==
    [][ \A e \in Executions :
          (op' \in { "start", "pause" } /\ caller' # e) =>
              RunningObserved(e)' = RunningObserved(e) ]_vars

\* C6: step() on a Pipeline or a BranchNode always raises, yields nothing, and
\* leaves the member list and the running flag as they were.
C6_StepAlwaysFails ==
    [][ op' \in { "Pipeline.step", "BranchNode.step" } =>
          /\ raised' = "RuntimeError"
          /\ pipeline_nodes' = pipeline_nodes
          /\ running' = running ]_vars

\* step() was called on a running Pipeline with two members, one of them a
\* BranchNode with a child, and raised.
C6_Witness ==
    /\ op = "Pipeline.step" /\ raised = "RuntimeError"
    /\ running /\ Len(pipeline_nodes) = 2
    /\ pipeline_nodes[1].kind = "branch" /\ pipeline_nodes[1].nodes # <<>>

\* C7: Pipeline.ping() is true iff ping() of every member is true.
C7_PingIsConjunction ==
    op = "ping" =>
        pingResult = \A i \in DOMAIN pipeline_nodes : NodePing(pipeline_nodes[i])

\* ping() of a Pipeline whose first member is a BranchNode that pings true and
\* whose second member is a nested Pipeline that pings false: the answer is false.
C7_Witness ==
    /\ op = "ping" /\ ~pingResult
    /\ Len(pipeline_nodes) = 2
    /\ pipeline_nodes[1].kind = "branch" /\ NodePing(pipeline_nodes[1])
    /\ pipeline_nodes[2].kind = "pipeline" /\ ~NodePing(pipeline_nodes[2])

====
